---------------------------- MODULE Spec2Model ----------------------------
(***************************************************************************)
(* Contact manager of src/Normal_Files/day2_contact_manager.py.            *)
(*                                                                         *)
(* Python strings are modelled as sequences of one-character strings, so   *)
(* that strip(), lower(), re.sub(r"\D", "", s), slicing and the `in`       *)
(* substring test are computed character by character.  A Python value     *)
(* that may or may not be a string is a tagged record [t, v]:              *)
(*   t = "str"  : the string v                                             *)
(*   t = "num"  : a value that is not a string and is truthy (e.g. 5)      *)
(*   t = "none" : None (also: the key is absent from a JSON object)        *)
(***************************************************************************)
EXTENDS Naturals, Sequences, FiniteSets

VARIABLES
    contacts,       \* self.contacts: OrderedDict key -> contact, as a sequence of [key, val]
    contacts_list,  \* self.contacts_list: list of contacts [name, phone]
    file,           \* the content of self.filename on disk
    last,           \* the last call made on the manager: its arguments and its outcome
    inp,            \* the argument handed to normalize_phone (normalization runs)
    out             \* what normalize_phone returned for inp

vars == <<contacts, contacts_list, file, last, inp, out>>

---------------------------------------------------------------------------
(* Bounds of the model *)

\* add_contact inserts only while the store holds fewer records than this
MaxContacts == 3
\* the longest run of digits handed to normalize_phone in the normalization runs
MaxDigits == 13
\* the most non-digit characters mixed into such an argument
MaxNonDigits == 1

---------------------------------------------------------------------------
(* Python values *)

Str(s) == [t |-> "str", v |-> s]
Num == [t |-> "num", v |-> <<>>]
None == [t |-> "none", v |-> <<>>]

\* isinstance(x, str)
IsStr(x) == x.t = "str"

\* bool(x)
Truthy(x) == x.t = "num" \/ (x.t = "str" /\ x.v # <<>>)

Digits == {"0", "1", "2", "3", "4", "5", "6", "7", "8", "9"}

Whitespace == {" "}

\* one character of str.lower()
LowerChar(c) == CASE c = "K" -> "k" [] c = "A" -> "a" [] c = "L" -> "l" [] OTHER -> c

\* str.lower()
Lower(s) == [i \in 1..Len(s) |-> LowerChar(s[i])]

RECURSIVE LStrip(_)
LStrip(s) == IF s # <<>> /\ Head(s) \in Whitespace THEN LStrip(Tail(s)) ELSE s

RECURSIVE RStrip(_)
RStrip(s) ==
    IF s # <<>> /\ s[Len(s)] \in Whitespace THEN RStrip(SubSeq(s, 1, Len(s) - 1)) ELSE s

\* str.strip()
Strip(s) == RStrip(LStrip(s))

IsDigit(c) == c \in Digits

\* re.sub(r"\D", "", s)
ReSubNonDigit(s) == SelectSeq(s, IsDigit)

\* s[-n:]
LastN(s, n) == IF Len(s) <= n THEN s ELSE SubSeq(s, Len(s) - n + 1, Len(s))

\* s.startswith(p)
StartsWith(s, p) == Len(s) >= Len(p) /\ SubSeq(s, 1, Len(p)) = p

\* s.endswith(p)
EndsWith(s, p) == Len(s) >= Len(p) /\ SubSeq(s, Len(s) - Len(p) + 1, Len(s)) = p

\* needle in hay
Contains(hay, needle) ==
    \E i \in 0..Len(hay) :
        i + Len(needle) <= Len(hay) /\ SubSeq(hay, i + 1, i + Len(needle)) = needle

---------------------------------------------------------------------------
(* normalize_phone, normalize_name *)

\* normalize_phone dropping the first of 11 digits whatever it is
normalize_phone_any11(phone) ==
    IF ~IsStr(phone) THEN None
    ELSE LET digits == ReSubNonDigit(phone.v) IN
        IF Len(digits) = 10 THEN Str(digits)
        ELSE IF Len(digits) = 11 THEN Str(Tail(digits))
        ELSE IF Len(digits) >= 12 THEN Str(LastN(digits, 10))
        ELSE None

normalize_phone(phone) ==
    IF ~IsStr(phone) THEN None
    ELSE LET digits == ReSubNonDigit(phone.v) IN
        IF Len(digits) = 10 THEN Str(digits)
        ELSE IF Len(digits) = 11 /\ StartsWith(digits, <<"0">>) THEN Str(Tail(digits))
        ELSE IF Len(digits) >= 12 /\ EndsWith(digits, LastN(ReSubNonDigit(phone.v), 10))
             THEN LET last10 == LastN(digits, 10) IN
                  IF Len(last10) = 10 THEN Str(last10) ELSE None
        ELSE None

normalize_name(name) ==
    IF ~IsStr(name) THEN None
    ELSE LET n == Strip(name.v) IN
        IF n # <<>> THEN Str(n) ELSE None

---------------------------------------------------------------------------
(* The OrderedDict self.contacts *)

\* key in d
HasKey(d, k) == \E i \in 1..Len(d) : d[i].key = k

\* d[k]
DictGet(d, k) == d[CHOOSE i \in 1..Len(d) : d[i].key = k].val

\* d[k] = v : a present key keeps its place and takes the new value
DictSet(d, k, v) ==
    IF HasKey(d, k)
    THEN [i \in 1..Len(d) |-> IF d[i].key = k THEN [key |-> k, val |-> v] ELSE d[i]]
    ELSE Append(d, [key |-> k, val |-> v])

\* d.pop(k): the dict without k
DictPop(d, k) ==
    LET keep(e) == e.key # k IN SelectSeq(d, keep)

Contact(name, phone) == [name |-> name, phone |-> phone]

\* x or ""
OrEmpty(x) == IF Truthy(x) THEN x.v ELSE <<>>

---------------------------------------------------------------------------
(* Persistence: load and save *)

\* raw.get("name", "")
GetName(raw) == IF raw.name = None THEN Str(<<>>) ELSE raw.name

\* load_key with the name tried first: key = name.lower() if name else phone_norm
load_key_namefirst(name, phone_norm) ==
    IF Truthy(name) THEN Lower(name.v) ELSE phone_norm.v

\* key = phone_norm if phone_norm else name.lower()
load_key(name, phone_norm) == IF Truthy(phone_norm) THEN phone_norm.v ELSE Lower(name.v)

\* skip_entry without `if key in self.contacts: continue`
skip_entry_nocollision(cs, raw) ==
    IF ~raw.obj THEN TRUE
    ELSE LET name == normalize_name(GetName(raw))
             phone_norm == IF Truthy(raw.phone) THEN normalize_phone(raw.phone) ELSE None
         IN ~Truthy(name) /\ ~Truthy(phone_norm)

\* skip_entry with `if not name or not phone_norm: continue`
skip_entry_needs_both(cs, raw) ==
    IF ~raw.obj THEN TRUE
    ELSE LET name == normalize_name(GetName(raw))
             phone_norm == IF Truthy(raw.phone) THEN normalize_phone(raw.phone) ELSE None
         IN IF ~Truthy(name) \/ ~Truthy(phone_norm) THEN TRUE
            ELSE HasKey(cs, load_key(name, phone_norm))

\* the guard of one pass of the loop of load: the entry is skipped when it holds
skip_entry(cs, raw) ==
    IF ~raw.obj THEN TRUE
    ELSE LET name == normalize_name(GetName(raw))
             phone_norm == IF Truthy(raw.phone) THEN normalize_phone(raw.phone) ELSE None
         IN IF ~Truthy(name) /\ ~Truthy(phone_norm) THEN TRUE
            ELSE HasKey(cs, load_key(name, phone_norm))

\* load_entry storing the phone as read instead of phone_norm
load_entry_rawphone(st, raw) ==
    IF skip_entry(st.contacts, raw) THEN st
    ELSE LET name == normalize_name(GetName(raw))
             phone_norm == IF Truthy(raw.phone) THEN normalize_phone(raw.phone) ELSE None
             key == load_key(name, phone_norm)
             contact == Contact(OrEmpty(name), IF IsStr(raw.phone) THEN raw.phone.v ELSE <<>>)
         IN [contacts |-> DictSet(st.contacts, key, contact),
             contacts_list |-> Append(st.contacts_list, contact)]

\* one pass of the loop of load over the entry raw
load_entry(st, raw) ==
    IF skip_entry(st.contacts, raw) THEN st
    ELSE LET name == normalize_name(GetName(raw))
             phone_norm == IF Truthy(raw.phone) THEN normalize_phone(raw.phone) ELSE None
             key == load_key(name, phone_norm)
             contact == Contact(OrEmpty(name), OrEmpty(phone_norm))
         IN [contacts |-> DictSet(st.contacts, key, contact),
             contacts_list |-> Append(st.contacts_list, contact)]

\* for raw in data: ...
RECURSIVE load_loop(_, _)
load_loop(st, data) ==
    IF data = <<>> THEN st ELSE load_loop(load_entry(st, Head(data)), Tail(data))

EmptyStore == [contacts |-> <<>>, contacts_list |-> <<>>]

\* the exception open()/json.load() raise on the file f that load does not catch
load_raises(f) == IF f.kind = "badutf8" THEN "UnicodeDecodeError" ELSE ""

\* load(): the store it leaves and the exception that escapes it ("" when none)
load(f) ==
    LET st == IF f.kind = "list" THEN load_loop(EmptyStore, f.data) ELSE EmptyStore
    IN [contacts |-> st.contacts, contacts_list |-> st.contacts_list, exc |-> load_raises(f)]

\* json.dump(self.contacts_list, f): each contact is an object of two strings
Serialize(cl) ==
    [i \in 1..Len(cl) |-> [obj |-> TRUE, name |-> Str(cl[i].name), phone |-> Str(cl[i].phone)]]

\* save(): the file it writes
save(cl) == [kind |-> "list", data |-> Serialize(cl)]

---------------------------------------------------------------------------
(* add_contact *)

MsgName == "Name is required."
MsgPhone == "Phone is invalid. Provide a valid 10-digit number (country code allowed)."
MsgExists == "Phone already exists."

\* add_error without `if key in self.contacts: raise`
add_error_nodup(cs, name, phone) ==
    IF ~Truthy(normalize_name(name)) THEN MsgName
    ELSE IF ~Truthy(normalize_phone(phone)) THEN MsgPhone
    ELSE ""

\* add_error with the duplicate check made before the name check
add_error_dupfirst(cs, name, phone) ==
    IF Truthy(normalize_phone(phone)) /\ HasKey(cs, normalize_phone(phone).v) THEN MsgExists
    ELSE IF ~Truthy(normalize_name(name)) THEN MsgName
    ELSE IF ~Truthy(normalize_phone(phone)) THEN MsgPhone
    ELSE ""

\* the ValueError add_contact raises, by its message ("" when it raises none)
add_error(cs, name, phone) ==
    IF ~Truthy(normalize_name(name)) THEN MsgName
    ELSE IF ~Truthy(normalize_phone(phone)) THEN MsgPhone
    ELSE IF HasKey(cs, normalize_phone(phone).v) THEN MsgExists
    ELSE ""

\* add_contact storing the name as given instead of name_clean
add_contact_rawname(cs, cl, name, phone) ==
    LET msg == add_error(cs, name, phone) IN
    IF msg # ""
    THEN [contacts |-> cs, contacts_list |-> cl, exc |-> "ValueError", msg |-> msg, ret |-> <<>>]
    ELSE LET phone_norm == normalize_phone(phone).v
             contact == Contact(name.v, phone_norm)
         IN [contacts |-> DictSet(cs, phone_norm, contact),
             contacts_list |-> Append(cl, contact),
             exc |-> "", msg |-> "", ret |-> <<contact>>]

\* add_contact(name, phone): the store it leaves, the error it raises, the contact it returns
add_contact(cs, cl, name, phone) ==
    LET msg == add_error(cs, name, phone) IN
    IF msg # ""
    THEN [contacts |-> cs, contacts_list |-> cl, exc |-> "ValueError", msg |-> msg, ret |-> <<>>]
    ELSE LET name_clean == normalize_name(name).v
             phone_norm == normalize_phone(phone).v
             contact == Contact(name_clean, phone_norm)
         IN [contacts |-> DictSet(cs, phone_norm, contact),
             contacts_list |-> Append(cl, contact),
             exc |-> "", msg |-> "", ret |-> <<contact>>]

---------------------------------------------------------------------------
(* search, delete *)

\* search_match without name.lower()
search_match_cased(c, q) == Contains(c.name, q) \/ Contains(c.phone, q)

\* the test of the loop of search on the contact c
search_match(c, q) == Contains(Lower(c.name), q) \/ Contains(c.phone, q)

\* search without `if not q: return`
search_noempty(cl, query) ==
    IF ~IsStr(query) THEN <<>>
    ELSE LET q == Lower(Strip(query.v))
             hit(c) == search_match(c, q)
         IN SelectSeq(cl, hit)

\* search(query): the contacts it yields, in order
search(cl, query) ==
    IF ~IsStr(query) THEN <<>>
    ELSE LET q == Lower(Strip(query.v))
             hit(c) == search_match(c, q)
         IN IF q = <<>> THEN <<>> ELSE SelectSeq(cl, hit)

\* _remove_from_list deleting the first entry of the list, whatever it is
remove_from_list_head(cl, contact) == IF cl = <<>> THEN <<>> ELSE Tail(cl)

\* _remove_from_list comparing the names only
RECURSIVE remove_from_list_byname(_, _)
remove_from_list_byname(cl, contact) ==
    IF cl = <<>> THEN <<>>
    ELSE IF Head(cl).name = contact.name THEN Tail(cl)
    ELSE <<Head(cl)>> \o remove_from_list_byname(Tail(cl), contact)

\* _remove_from_list(contact): the list without the first entry equal to it
RECURSIVE remove_from_list(_, _)
remove_from_list(cl, contact) ==
    IF cl = <<>> THEN <<>>
    ELSE IF Head(cl).name = contact.name /\ Head(cl).phone = contact.phone THEN Tail(cl)
    ELSE <<Head(cl)>> \o remove_from_list(Tail(cl), contact)

\* delete_by_name leaving the loop after its first removal
RECURSIVE delete_by_name_first(_, _, _)
delete_by_name_first(st, items, target) ==
    IF items = <<>> THEN st
    ELSE LET e == Head(items) IN
        IF Lower(e.val.name) = target
        THEN [contacts |-> DictPop(st.contacts, e.key),
              contacts_list |-> remove_from_list(st.contacts_list, DictGet(st.contacts, e.key)),
              removed_any |-> TRUE]
        ELSE delete_by_name_first(st, Tail(items), target)

\* the fallback loop of delete over the snapshot list(self.contacts.items())
RECURSIVE delete_by_name(_, _, _)
delete_by_name(st, items, target) ==
    IF items = <<>> THEN st
    ELSE LET e == Head(items) IN
        IF Lower(e.val.name) = target
        THEN delete_by_name(
                 [contacts |-> DictPop(st.contacts, e.key),
                  contacts_list |-> remove_from_list(st.contacts_list, DictGet(st.contacts, e.key)),
                  removed_any |-> TRUE],
                 Tail(items), target)
        ELSE delete_by_name(st, Tail(items), target)

\* whether delete takes its first branch: the identifier is a phone that is a key
delete_by_phone(cs, phone_or_name) ==
    Truthy(normalize_phone(phone_or_name)) /\ HasKey(cs, normalize_phone(phone_or_name).v)

\* delete without `or not phone_or_name.strip()` in its first test
delete_noblankguard(cs, cl, phone_or_name) ==
    IF ~IsStr(phone_or_name)
    THEN [contacts |-> cs, contacts_list |-> cl, removed_any |-> FALSE]
    ELSE IF delete_by_phone(cs, phone_or_name)
    THEN LET phone_key == normalize_phone(phone_or_name).v IN
         [contacts |-> DictPop(cs, phone_key),
          contacts_list |-> remove_from_list(cl, DictGet(cs, phone_key)),
          removed_any |-> TRUE]
    ELSE delete_by_name([contacts |-> cs, contacts_list |-> cl, removed_any |-> FALSE],
                        cs, Lower(Strip(phone_or_name.v)))

\* delete(phone_or_name): the store it leaves and the boolean it returns
delete(cs, cl, phone_or_name) ==
    IF ~IsStr(phone_or_name) \/ Strip(phone_or_name.v) = <<>>
    THEN [contacts |-> cs, contacts_list |-> cl, removed_any |-> FALSE]
    ELSE IF delete_by_phone(cs, phone_or_name)
    THEN LET phone_key == normalize_phone(phone_or_name).v IN
         [contacts |-> DictPop(cs, phone_key),
          contacts_list |-> remove_from_list(cl, DictGet(cs, phone_key)),
          removed_any |-> TRUE]
    ELSE delete_by_name([contacts |-> cs, contacts_list |-> cl, removed_any |-> FALSE],
                        cs, Lower(Strip(phone_or_name.v)))

---------------------------------------------------------------------------
(* The inputs the runs draw from *)

sKamal == <<"K", "a", "m", "a", "l">>
\* " Kamal": the name with a leading blank
sKamalSp == <<" ", "K", "a", "m", "a", "l">>
skamal == <<"k", "a", "m", "a", "l">>
sAl == <<"A", "l">>
sA == <<"A">>
sBlank == <<" ", " ">>
\* "9876543210" and three ways to write it
sPA == <<"9", "8", "7", "6", "5", "4", "3", "2", "1", "0">>
sPAdash == <<"9", "8", "7", "6", "5", "-", "4", "3", "2", "1", "0">>
sPAzero == <<"0", "9", "8", "7", "6", "5", "4", "3", "2", "1", "0">>
\* "9123456789" and its form with the country code 91
sPB == <<"9", "1", "2", "3", "4", "5", "6", "7", "8", "9">>
sPBcc == <<"9", "1", "9", "1", "2", "3", "4", "5", "6", "7", "8", "9">>
s123 == <<"1", "2", "3">>
s987 == <<"9", "8", "7">>

AddNames == {Str(sKamalSp), Str(sAl), Str(sBlank), Num}
AddPhones == {Str(sPAdash), Str(sPAzero), Str(sPBcc), Str(s123), Num}
DeleteArgs == {Str(skamal), Str(sPAdash), Str(sPB), Str(sBlank), Num}
SearchArgs == {Str(sKamalSp), Str(sAl), Str(s987), Str(sBlank), Num}

\* a JSON object with the two fields (None: the field is absent), and a non-object
Obj(name, phone) == [obj |-> TRUE, name |-> name, phone |-> phone]
NotObj == [obj |-> FALSE, name |-> None, phone |-> None]

FileOf(kind, data) == [kind |-> kind, data |-> data]

\* [{"name": "A", "phone": "123"}]
ListA == <<Obj(Str(sA), Str(s123))>>

\* [5, {"name": "  ", "phone": "123"}, {"name": "9876543210"},
\*  {"name": " Kamal", "phone": "98765-43210"}, {"phone": "919123456789"},
\*  {"name": 5, "phone": "9123456789"}]
ListMixed ==
    <<NotObj, Obj(Str(sBlank), Str(s123)), Obj(Str(sPA), None),
      Obj(Str(sKamalSp), Str(sPAdash)), Obj(None, Str(sPBcc)), Obj(Num, Str(sPB))>>

\* [{"name": "98765-43210"}, {"name": "98765-43210", "phone": "919123456789"}]
ListDashed == <<Obj(Str(sPAdash), None), Obj(Str(sPAdash), Str(sPBcc))>>

\* what the file may hold when something other than save wrote it
Sources ==
    {FileOf("missing", <<>>), FileOf("badjson", <<>>), FileOf("badutf8", <<>>),
     FileOf("notlist", <<>>),
     FileOf("list", ListA), FileOf("list", ListMixed), FileOf("list", ListDashed)}

\* the characters the normalization runs type
NormChars == {"0", "9", "-"}

---------------------------------------------------------------------------
(* The state machine *)

\* a call: its name, its arguments, the number of records before it, the exception and
\* message it raised ("" when none), the contacts it returned or yielded, its boolean
Call(op, a1, a2, exc, msg, ret, flag) ==
    [op |-> op, a1 |-> a1, a2 |-> a2, n0 |-> Len(contacts_list),
     exc |-> exc, msg |-> msg, ret |-> ret, flag |-> flag]

NoCall ==
    [op |-> "init", a1 |-> None, a2 |-> None, n0 |-> 0,
     exc |-> "", msg |-> "", ret |-> <<>>, flag |-> FALSE]

\* ContactManager(): the constructor loads the file; no object exists if load raises
Init ==
    /\ file \in {f \in Sources : load(f).exc = ""}
    /\ contacts = load(file).contacts
    /\ contacts_list = load(file).contacts_list
    /\ last = NoCall
    /\ inp = Str(<<>>)
    /\ out = None

AddContact(name, phone) ==
    LET r == add_contact(contacts, contacts_list, name, phone) IN
    /\ r.exc = "" => Len(contacts_list) < MaxContacts
    /\ contacts' = r.contacts
    /\ contacts_list' = r.contacts_list
    /\ last' = Call("add_contact", name, phone, r.exc, r.msg, r.ret, FALSE)
    /\ UNCHANGED <<file, inp, out>>

Search(query) ==
    /\ last' = Call("search", query, None, "", "", search(contacts_list, query), FALSE)
    /\ UNCHANGED <<contacts, contacts_list, file, inp, out>>

Delete(phone_or_name) ==
    LET r == delete(contacts, contacts_list, phone_or_name) IN
    /\ contacts' = r.contacts
    /\ contacts_list' = r.contacts_list
    /\ last' = Call("delete", phone_or_name, None, "", "", <<>>, r.removed_any)
    /\ UNCHANGED <<file, inp, out>>

Load ==
    LET r == load(file) IN
    /\ contacts' = r.contacts
    /\ contacts_list' = r.contacts_list
    /\ last' = Call("load", None, None, r.exc, "", <<>>, FALSE)
    /\ UNCHANGED <<file, inp, out>>

Save ==
    /\ file' = save(contacts_list)
    /\ last' = Call("save", None, None, "", "", <<>>, FALSE)
    /\ UNCHANGED <<contacts, contacts_list, inp, out>>

\* another program replaces the file
ExternalWrite(f) ==
    /\ file' = f
    /\ last' = Call("external_write", None, None, "", "", <<>>, FALSE)
    /\ UNCHANGED <<contacts, contacts_list, inp, out>>

Next ==
    \/ \E name \in AddNames, phone \in AddPhones : AddContact(name, phone)
    \/ \E query \in SearchArgs : Search(query)
    \/ \E x \in DeleteArgs : Delete(x)
    \/ Load
    \/ Save
    \/ \E f \in Sources : ExternalWrite(f)

Spec == Init /\ [][Next]_vars

---------------------------------------------------------------------------
(* Normalization runs: normalize_phone applied to every argument typed *)

NonDigits(s) ==
    LET nd(c) == ~IsDigit(c) IN SelectSeq(s, nd)

InitNorm ==
    /\ contacts = <<>>
    /\ contacts_list = <<>>
    /\ file = FileOf("missing", <<>>)
    /\ last = NoCall
    /\ inp = Str(<<>>)
    /\ out = normalize_phone(inp)

\* the argument grows by one character and is normalized
TypeChar(c) ==
    /\ IsStr(inp)
    /\ IF IsDigit(c) THEN Len(ReSubNonDigit(inp.v)) < MaxDigits
                     ELSE Len(NonDigits(inp.v)) < MaxNonDigits
    /\ inp' = Str(Append(inp.v, c))
    /\ out' = normalize_phone(inp')
    /\ UNCHANGED <<contacts, contacts_list, file, last>>

\* the argument is not a string
PassNonString ==
    /\ inp = Str(<<>>)
    /\ inp' = Num
    /\ out' = normalize_phone(inp')
    /\ UNCHANGED <<contacts, contacts_list, file, last>>

NextNorm ==
    \/ \E c \in NormChars : TypeChar(c)
    \/ PassNonString

SpecNorm == InitNorm /\ [][NextNorm]_vars

---------------------------------------------------------------------------
(* Vocabulary of the properties *)

\* the derived key of a record: its phone if it has one, else its lowercased name
DerivedKey(c) == IF c.phone # <<>> THEN c.phone ELSE Lower(c.name)

RecordSet(cl) == {cl[i] : i \in 1..Len(cl)}

ValidNameArg(x) == IsStr(x) /\ Strip(x.v) # <<>>
ValidPhoneArg(x) == IsStr(x) /\ Truthy(normalize_phone(x))

ValidationError(l) == l.exc = "ValueError" /\ l.msg \in {MsgName, MsgPhone}
DuplicateError(l) == l.exc = "ValueError" /\ l.msg = MsgExists

StoreUnchanged == contacts' = contacts /\ contacts_list' = contacts_list

AllDigits(s) == \A i \in 1..Len(s) : s[i] \in Digits

---------------------------------------------------------------------------
(* Properties *)

\* C1: in every reachable state each record of the index is stored under its derived
\* key, every record of the list is the value of its derived key in the index, and no
\* two stored records have the same derived key.
C1_KeysDerivedUnique ==
    /\ \A i \in 1..Len(contacts) : contacts[i].key = DerivedKey(contacts[i].val)
    /\ \A i, j \in 1..Len(contacts) : contacts[i].key = contacts[j].key => i = j
    /\ \A i \in 1..Len(contacts_list) :
           /\ HasKey(contacts, DerivedKey(contacts_list[i]))
           /\ DictGet(contacts, DerivedKey(contacts_list[i])) = contacts_list[i]
    /\ \A i, j \in 1..Len(contacts_list) :
           DerivedKey(contacts_list[i]) = DerivedKey(contacts_list[j]) => i = j

\* C1 witness: a delete has removed a record from a store that was loaded and added
\* to, leaving a record keyed by its name and a record keyed by its phone.
C1_Witness ==
    /\ last.op = "delete" /\ last.flag
    /\ \E i, j \in 1..Len(contacts_list) :
           contacts_list[i].phone = <<>> /\ contacts_list[j].phone # <<>>

C3_SaveLoadIdempotent ==
    [][(last.op = "save" /\ last'.op = "load")
       => (/\ last'.exc = ""
           /\ RecordSet(contacts_list') = RecordSet(contacts_list)
           /\ Len(contacts_list') = Len(contacts_list))]_vars

\* C3 witness: a load has read back a saved store of a record without phone and two
\* records of the same name.
C3_Witness ==
    /\ last.op = "load"
    /\ file = save(contacts_list)
    /\ Len(contacts_list) = 3
    /\ \E i, j, k \in 1..Len(contacts_list) :
           /\ contacts_list[i].phone = <<>>
           /\ j # k /\ contacts_list[j].name = contacts_list[k].name

\* C4 as stated: after a successful add_contact(name, phone), search(name) yields
\* exactly one record.
C4_SearchYieldsOne ==
    (last.op = "add_contact" /\ last.exc = "")
        => Len(search(contacts_list, last.a1)) = 1

\* C4 amended: after a successful add_contact(name, phone), search(name) yields the
\* record just added and, besides it, exactly the other stored records whose name
\* contains the trimmed name case-insensitively or whose phone contains it; so it
\* yields one record exactly when there is no such other record.
C4_SearchFindsAdded ==
    (last.op = "add_contact" /\ last.exc = "")
        => LET n == Len(contacts_list)
               q == Lower(Strip(last.a1.v))
               res == search(contacts_list, last.a1)
               others == {i \in 1..(n - 1) :
                             \/ Contains(Lower(contacts_list[i].name), q)
                             \/ Contains(contacts_list[i].phone, q)}
           IN /\ n = last.n0 + 1
              /\ last.ret = <<contacts_list[n]>>
              /\ Len(res) = 1 + Cardinality(others)
              /\ res # <<>> /\ res[Len(res)] = contacts_list[n]
              /\ \A i \in others : \E k \in 1..Len(res) : res[k] = contacts_list[i]

\* C4 witness: a record was added to a store of other records and search(name) yields
\* it alone.
C4_Witness ==
    /\ last.op = "add_contact" /\ last.exc = ""
    /\ Len(contacts_list) >= 2
    /\ search(contacts_list, last.a1) = <<contacts_list[Len(contacts_list)]>>

\* C5 as stated: a delete whose identifier normalizes to a phone removes at most one
\* record, whether or not that phone is a key of the store.
C5_PhoneDeleteAtMostOne ==
    [][(last'.op = "delete" /\ ValidPhoneArg(last'.a1))
       => Len(contacts_list) <= Len(contacts_list') + 1]_vars

\* C5 amended: a delete whose identifier normalizes to a phone removes exactly one
\* record when that phone is a key of the store; when it is not, the identifier is
\* taken as a name and every record whose name equals it (trimmed, case-insensitively)
\* is removed, which may be several.
C5_PhoneDeleteByKeyOrName ==
    [][(last'.op = "delete" /\ ValidPhoneArg(last'.a1))
       => IF HasKey(contacts, normalize_phone(last'.a1).v)
          THEN /\ Len(contacts_list) = Len(contacts_list') + 1
               /\ last'.flag
          ELSE LET named == {i \in 1..Len(contacts_list) :
                                Lower(contacts_list[i].name) = Lower(Strip(last'.a1.v))}
               IN /\ Len(contacts_list) = Len(contacts_list') + Cardinality(named)
                  /\ last'.flag = (named # {})]_vars

\* C5 witness: delete("9123456789") has removed one record of several.
C5_Witness ==
    /\ last.op = "delete" /\ last.a1 = Str(sPB) /\ last.flag
    /\ last.n0 = Len(contacts_list) + 1
    /\ Len(contacts_list) >= 1

\* what the entry e of a loaded list has to offer
EntryHasName(e) == e.obj /\ ValidNameArg(e.name)
EntryHasPhone(e) == e.obj /\ ValidPhoneArg(e.phone)
EntryUsable(e) == EntryHasName(e) \/ EntryHasPhone(e)

\* the record a usable entry stands for
EntryRecord(e) ==
    Contact(IF EntryHasName(e) THEN Strip(e.name.v) ELSE <<>>,
            IF EntryHasPhone(e) THEN normalize_phone(e.phone).v ELSE <<>>)

\* entry i is usable and no usable entry before it has its derived key
EntryKept(data, i) ==
    /\ EntryUsable(data[i])
    /\ \A j \in 1..(i - 1) :
           EntryUsable(data[j])
               => DerivedKey(EntryRecord(data[j])) # DerivedKey(EntryRecord(data[i]))

\* the records of the kept entries, in source order
KeptRecords(data) ==
    LET kept(i) == EntryKept(data, i)
        idx == SelectSeq([i \in 1..Len(data) |-> i], kept)
    IN [k \in 1..Len(idx) |-> EntryRecord(data[idx[k]])]

\* C6: after load of a list, the list holds, in source order, the records of exactly
\* the entries that are objects with a valid name or a valid phone and whose derived
\* key no earlier such entry has; the index holds them under their derived keys; an
\* entry with a valid name and an invalid phone is kept with an empty phone under its
\* lowercased name; and load raised nothing.
C6_LoadOfList ==
    (last.op = "load" /\ file.kind = "list")
        => LET recs == KeptRecords(file.data) IN
           /\ last.exc = ""
           /\ contacts_list = recs
           /\ contacts = [k \in 1..Len(recs) |-> [key |-> DerivedKey(recs[k]), val |-> recs[k]]]
           /\ file.data = ListA
                  => /\ contacts_list = <<Contact(sA, <<>>)>>
                     /\ contacts = <<[key |-> <<"a">>, val |-> Contact(sA, <<>>)]>>

\* C6 witness: load has read the list of a non-object, an entry with neither name nor
\* phone, two entries whose key was already loaded, and two entries that were kept.
C6_Witness ==
    /\ last.op = "load"
    /\ file = FileOf("list", ListMixed)
    /\ contacts_list = <<Contact(sPA, <<>>), Contact(<<>>, sPB)>>

\* C7: load raises nothing, and when the file is missing, cannot be parsed or does
\* not hold a list, it leaves the store empty.
C7_LoadNeverRaises ==
    last.op = "load"
        => /\ last.exc = ""
           /\ file.kind # "list" => (contacts = <<>> /\ contacts_list = <<>>)

\* C8: normalize_phone returns, for a string with digits d (non-digits removed): d when
\* d has 10 digits; d without its first digit when d has 11 digits and starts with 0;
\* the last 10 digits of d when d has 12 or more; None otherwise, and None for a value
\* that is not a string.  A result is 10 digits, and is the result for d alone.
C8_NormalizePhone ==
    /\ ~IsStr(inp) => out = None
    /\ IsStr(inp) =>
           LET d == ReSubNonDigit(inp.v) IN
           /\ Len(d) = 10 => out = Str(d)
           /\ (Len(d) = 11 /\ d[1] = "0") => out = Str(SubSeq(d, 2, 11))
           /\ Len(d) >= 12 => out = Str(SubSeq(d, Len(d) - 9, Len(d)))
           /\ (Len(d) < 10 \/ (Len(d) = 11 /\ d[1] # "0")) => out = None
           /\ out = normalize_phone(Str(d))
    /\ out # None => (IsStr(out) /\ Len(out.v) = 10 /\ AllDigits(out.v))

\* C8 witness: an argument of 13 digits and a non-digit was normalized to 10 digits.
C8_Witness ==
    /\ IsStr(inp)
    /\ Len(ReSubNonDigit(inp.v)) = 13
    /\ Len(inp.v) > 13
    /\ IsStr(out) /\ Len(out.v) = 10

\* C9: an add_contact with a valid name and a valid phone whose normalized form is not
\* a key of the store appends the record {trimmed name, normalized phone} to the list
\* and to the index, changes nothing else of them, raises nothing and returns that
\* record; "98765-43210" is stored as "9876543210".
C9_AddAppends ==
    [][(/\ last'.op = "add_contact"
        /\ ValidNameArg(last'.a1)
        /\ ValidPhoneArg(last'.a2)
        /\ ~HasKey(contacts, normalize_phone(last'.a2).v))
       => LET c == Contact(Strip(last'.a1.v), normalize_phone(last'.a2).v) IN
          /\ contacts_list' = Append(contacts_list, c)
          /\ contacts' = Append(contacts, [key |-> c.phone, val |-> c])
          /\ last'.exc = ""
          /\ last'.ret = <<c>>
          /\ Len(c.phone) = 10 /\ AllDigits(c.phone)
          /\ c.name # <<>> /\ c.name[1] # " " /\ c.name[Len(c.name)] # " "
          /\ last'.a2 = Str(sPAdash) => c.phone = sPA]_vars

\* C9 witness: add_contact(" Kamal", "98765-43210") has appended {"Kamal",
\* "9876543210"} to a store that held a record.
C9_Witness ==
    /\ last.op = "add_contact" /\ last.exc = ""
    /\ last.a1 = Str(sKamalSp) /\ last.a2 = Str(sPAdash)
    /\ last.n0 >= 1
    /\ Len(contacts_list) = last.n0 + 1
    /\ contacts_list[Len(contacts_list)] = Contact(sKamal, sPA)
    /\ last.ret = <<Contact(sKamal, sPA)>>

\* C10: an add_contact whose name is not a string or is empty once trimmed, or whose
\* phone has no normalized form, raises the name or the phone error, never the
\* "Phone already exists." error, also when the phone is a key of the store, and
\* leaves index and list as they were.
C10_ValidationFirst ==
    [][(/\ last'.op = "add_contact"
        /\ (~ValidNameArg(last'.a1) \/ ~ValidPhoneArg(last'.a2)))
       => (/\ ValidationError(last')
           /\ ~DuplicateError(last')
           /\ last'.ret = <<>>
           /\ StoreUnchanged)]_vars

\* C10 witness: add_contact("  ", "98765-43210") was refused for its name while a
\* record with the phone "9876543210" is stored.
C10_Witness ==
    /\ last.op = "add_contact"
    /\ last.a1 = Str(sBlank) /\ last.a2 = Str(sPAdash)
    /\ ValidationError(last) /\ last.msg = MsgName
    /\ \E i \in 1..Len(contacts_list) : contacts_list[i].phone = sPA

\* the identifier x of a delete is a string that is not blank
UsableIdentifier(x) == IsStr(x) /\ Strip(x.v) # <<>>

\* the records of cl whose name is not n, case-insensitively, in order
WithoutName(cl, n) ==
    LET other(c) == Lower(c.name) # Lower(n) IN SelectSeq(cl, other)

\* the entries of the index cs whose record's name is not n, case-insensitively, in order
IndexWithoutName(cs, n) ==
    LET other(e) == Lower(e.val.name) # Lower(n) IN SelectSeq(cs, other)

\* the list cl without its entry i
WithoutIndex(cl, i) == SubSeq(cl, 1, i - 1) \o SubSeq(cl, i + 1, Len(cl))

\* what delete does with a phone key present or, if not, with the identifier as a name
DeleteByKeyElseName(x) ==
    IF ValidPhoneArg(x) /\ HasKey(contacts, normalize_phone(x).v)
    THEN LET k == CHOOSE i \in 1..Len(contacts) : contacts[i].key = normalize_phone(x).v
             rec == contacts[k].val
         IN /\ contacts' = WithoutIndex(contacts, k)
            /\ \E i \in 1..Len(contacts_list) :
                   /\ contacts_list[i] = rec
                   /\ contacts_list' = WithoutIndex(contacts_list, i)
    ELSE /\ contacts_list' = WithoutName(contacts_list, Strip(x.v))
         /\ contacts' = IndexWithoutName(contacts, Strip(x.v))

\* C11 as stated: a delete with a string identifier removes the single record under the
\* identifier's phone key if that key is present, and otherwise every record whose
\* name equals the trimmed identifier case-insensitively and no other; the records
\* that remain keep their order.
C11_DeleteByKeyElseName ==
    [][(last'.op = "delete" /\ IsStr(last'.a1)) => DeleteByKeyElseName(last'.a1)]_vars

\* C11 amended: a delete whose identifier is not a string or is blank once trimmed
\* removes nothing (also when records with an empty name are stored); for any other
\* identifier it removes the single record under the identifier's phone key if that
\* key is present, and otherwise every record whose name equals the trimmed
\* identifier case-insensitively and no other; the records that remain keep their order.
C11_DeleteUsableIdentifier ==
    [][(last'.op = "delete")
       => IF UsableIdentifier(last'.a1) THEN DeleteByKeyElseName(last'.a1)
          ELSE StoreUnchanged]_vars

\* C11 witness: delete("kamal") has removed the two records named "Kamal" and left
\* the record loaded before them.
C11_Witness ==
    /\ last.op = "delete" /\ last.a1 = Str(skamal) /\ last.flag
    /\ last.n0 = 3
    /\ contacts_list = <<Contact(sA, <<>>)>>

\* the identifier x matches a record of the store: it is a usable identifier and its
\* phone key is present or some record has it as its name
IdentifierMatches(x) ==
    /\ UsableIdentifier(x)
    /\ \/ ValidPhoneArg(x) /\ HasKey(contacts, normalize_phone(x).v)
       \/ \E i \in 1..Len(contacts_list) :
              Lower(contacts_list[i].name) = Lower(Strip(x.v))

\* C12: a delete raises nothing and returns true exactly when it removed a record:
\* for an identifier that matches nothing (a non-string, an empty or blank string, a
\* phone or name that is not stored) it returns false and leaves index and list as
\* they were; when it returns true, list and index hold fewer records than before.
C12_DeleteReturnsRemoved ==
    [][(last'.op = "delete")
       => (/\ last'.exc = ""
           /\ last'.flag = (Len(contacts_list') < Len(contacts_list))
           /\ last'.flag = (Len(contacts') < Len(contacts))
           /\ last'.flag = IdentifierMatches(last'.a1)
           /\ ~UsableIdentifier(last'.a1) => ~last'.flag
           /\ ~last'.flag => StoreUnchanged)]_vars

\* C12 witness: delete("  ") has returned false and left the store, which holds a
\* record with an empty name, as it was.
C12_Witness ==
    /\ last.op = "delete" /\ last.a1 = Str(sBlank) /\ ~last.flag
    /\ last.n0 = Len(contacts_list)
    /\ \E i \in 1..Len(contacts_list) : contacts_list[i].name = <<>>

\* needle occurs in hay, letters compared without case
OccursNoCase(needle, hay) ==
    \E i \in 1..(Len(hay) + 1) :
        /\ i + Len(needle) <= Len(hay) + 1
        /\ \A k \in 1..Len(needle) : LowerChar(hay[i + k - 1]) = LowerChar(needle[k])

\* needle occurs in hay as it is
Occurs(needle, hay) ==
    \E i \in 1..(Len(hay) + 1) :
        /\ i + Len(needle) <= Len(hay) + 1
        /\ \A k \in 1..Len(needle) : hay[i + k - 1] = needle[k]

TenDigits(s) == Len(s) = 10 /\ AllDigits(s)

\* C14: in every reachable state each stored record, of the list and of the index,
\* has a trimmed name that is not empty or a phone in normalized form; its name has
\* no blank at either end; its phone is empty or ten digits; and the record a
\* successful add_contact has just stored has both a name and a ten-digit phone.
C14_RecordsWellFormed ==
    /\ \A c \in RecordSet(contacts_list) \cup {contacts[i].val : i \in 1..Len(contacts)} :
           /\ c.name # <<>> \/ TenDigits(c.phone)
           /\ c.name = Strip(c.name)
           /\ c.phone = <<>> \/ TenDigits(c.phone)
           /\ c.phone # <<>> => normalize_phone(Str(c.phone)) = Str(c.phone)
    /\ (last.op = "add_contact" /\ last.exc = "")
           => /\ Len(last.ret) = 1
              /\ last.ret[1] = contacts_list[Len(contacts_list)]
              /\ last.ret[1].name # <<>>
              /\ TenDigits(last.ret[1].phone)

\* C14 witness: the store holds a loaded record with a phone and no name, and the
\* record add_contact has just stored after it.
C14_Witness ==
    /\ last.op = "add_contact" /\ last.exc = ""
    /\ Len(contacts_list) = 2
    /\ contacts_list[1].name = <<>> /\ TenDigits(contacts_list[1].phone)
    /\ last.ret = <<contacts_list[2]>>

\* C15: in every reachable state the index and the list hold the same records: as
\* many entries, each list entry the value of exactly one key, each value of the
\* index an entry of the list; so a delete that pops a key takes that very record,
\* and only it, from the list.
C15_IndexMatchesList ==
    /\ Len(contacts) = Len(contacts_list)
    /\ \A i \in 1..Len(contacts_list) :
           Cardinality({k \in 1..Len(contacts) : contacts[k].val = contacts_list[i]}) = 1
    /\ \A k \in 1..Len(contacts) :
           \E i \in 1..Len(contacts_list) : contacts_list[i] = contacts[k].val

\* C15 witness: a delete has taken one of two records of the same name and the
\* other is still in the list and in the index.
C15_Witness ==
    /\ last.op = "delete" /\ last.flag /\ last.a1 = Str(sPB)
    /\ last.n0 = 2
    /\ contacts_list = <<Contact(sKamal, sPA)>>
    /\ contacts = <<[key |-> sPA, val |-> Contact(sKamal, sPA)]>>

\* C16: an add_contact with a valid name and a valid phone is refused with "Phone
\* already exists." only if a stored record has the normalized phone as its phone.
C16_DuplicateOnlyOfPhone ==
    (/\ last.op = "add_contact"
     /\ ValidNameArg(last.a1) /\ ValidPhoneArg(last.a2)
     /\ DuplicateError(last))
        => \E i \in 1..Len(contacts_list) :
               contacts_list[i].phone = normalize_phone(last.a2).v

=============================================================================
